---- MODULE Spec2Model ----
(***************************************************************************)
(* A model of LLMCodeExecutor (utilities/execute_python_scripts.py): the   *)
(* import validator, the harness that wraps the submitted code, the        *)
(* temporary script file, the child interpreter process with its bounded   *)
(* wait, and the extraction of the result from the captured stdout.        *)
(*                                                                         *)
(* Text (module names, Python and JSON literals, stdout, stderr) is a      *)
(* sequence of tokens; "\n" and " " are tokens of their own, so that       *)
(* split('\n'), split('.'), strip(), repr() and json.dumps/json.loads are  *)
(* computed on the text as the code computes them.                         *)
(***************************************************************************)
EXTENDS Integers, Sequences, FiniteSets, TLC

(***************************************************************************)
(* Bounds of the model.                                                    *)
(***************************************************************************)
MaxStmts == 2      \* statements in the body of a submitted module
MaxDepth == 1      \* nesting depth of the JSON values used as input / result
MaxPrints == 2     \* lines the submitted code prints to stdout
MaxTime == 2       \* max_execution_time the executor is constructed with (ticks)
MaxCalls == 2      \* execute_code calls made on the executor

(***************************************************************************)
(* str.split(sep) on a token sequence, and the pieces the code reads.      *)
(***************************************************************************)
Split(s, sep) ==
  LET RECURSIVE go(_, _, _)
      go(i, cur, acc) ==
        IF i > Len(s) THEN Append(acc, cur)
        ELSE IF s[i] = sep THEN go(i + 1, <<>>, Append(acc, cur))
        ELSE go(i + 1, Append(cur, s[i]), acc)
  IN go(1, <<>>, <<>>)

\* A mutant of TopLevelName: the last dotted component instead of the first.
TopLevelNameLast(name) == Split(name, ".")[Len(Split(name, "."))]

\* name.split('.')[0]
TopLevelName(name) == Split(name, ".")[1]

\* sep.join(parts)
RECURSIVE Join(_, _)
Join(parts, sep) ==
  IF parts = <<>> THEN <<>>
  ELSE IF Len(parts) = 1 THEN parts[1]
  ELSE parts[1] \o sep \o Join(Tail(parts), sep)

(***************************************************************************)
(* The syntax tree of the submitted code, as far as the validator reads    *)
(* it.  A node has a type, the dotted names of its aliases (Import, and    *)
(* the ImportFrom of `from . import x`), its module (ImportFrom; <<>> is   *)
(* Python's None, as in `from . import x`), and the statements nested in   *)
(* it (Module, FunctionDef).                                               *)
(***************************************************************************)
Node(type, names, module, body) ==
  [type |-> type, names |-> names, module |-> module, body |-> body]

Import(names) == Node("Import", names, <<>>, <<>>)
ImportFrom(module) == Node("ImportFrom", <<>>, module, <<>>)
FunctionDef(body) == Node("FunctionDef", <<>>, <<>>, body)
\* from . import <names>: the module of the node is None.
RelativeImport(names) == Node("ImportFrom", names, <<>>, <<>>)
Pass == Node("Pass", <<>>, <<>>, <<>>)
Module(body) == Node("Module", <<>>, <<>>, body)

\* A mutant of Walk: only the statements at the top level of the module.
WalkTopLevel(todo) == IF todo = <<>> THEN <<>> ELSE <<todo[1]>> \o todo[1].body

\* A mutant of Walk: depth first, the statements in the order of the source.
RECURSIVE WalkSourceOrder(_)
WalkSourceOrder(todo) ==
  IF todo = <<>> THEN <<>>
  ELSE <<Head(todo)>> \o WalkSourceOrder(Head(todo).body \o Tail(todo))

\* ast.walk(tree): breadth first, a node before the children it queues.
RECURSIVE Walk(_)
Walk(todo) ==
  IF todo = <<>> THEN <<>>
  ELSE <<Head(todo)>> \o Walk(Tail(todo) \o Head(todo).body)

(***************************************************************************)
(* What a call hands back: nothing yet, an exception, or the triple.       *)
(***************************************************************************)
JNull == [t |-> "null"]

NoOutcome ==
  [kind |-> "none", type |-> "", msg |-> <<>>,
   result |-> JNull, stdout |-> <<>>, stderr |-> <<>>]

Raise(type, msg) == [NoOutcome EXCEPT !.kind = "raise", !.type = type, !.msg = msg]

Return(result, out, err) ==
  [NoOutcome EXCEPT !.kind = "return", !.result = result, !.stdout = out, !.stderr = err]

(***************************************************************************)
(* _validate_imports: the names each import node is checked for, and the   *)
(* first node (in ast.walk order) with a name outside allowed_modules.     *)
(***************************************************************************)
\* The error of one node, or NoOutcome when the node passes.
RECURSIVE ImportNames(_, _)
ImportNames(names, allowed) ==
  IF names = <<>> THEN NoOutcome
  ELSE IF TopLevelName(Head(names)) \notin allowed
       THEN Raise("CodeExecutionError",
                  <<"Import of '">> \o Head(names) \o <<"' is not allowed">>)
       ELSE ImportNames(Tail(names), allowed)

CheckNode(node, allowed) ==
  IF node.type = "Import" THEN ImportNames(node.names, allowed)
  ELSE IF node.type = "ImportFrom"
       THEN IF node.module # <<>> /\ TopLevelName(node.module) \notin allowed
            THEN Raise("CodeExecutionError",
                       <<"Import from '">> \o node.module \o <<"' is not allowed">>)
            ELSE NoOutcome
       ELSE NoOutcome

RECURSIVE CheckNodes(_, _)
CheckNodes(nodes, allowed) ==
  IF nodes = <<>> THEN NoOutcome
  ELSE IF CheckNode(Head(nodes), allowed).kind = "raise"
       THEN CheckNode(Head(nodes), allowed)
       ELSE CheckNodes(Tail(nodes), allowed)

\* code is [parses, tree, run]; ast.parse raises SyntaxError when ~parses.
validate_imports(code, allowed) ==
  IF ~code.parses
  THEN Raise("CodeExecutionError", <<"Syntax error in code: ">>)
  ELSE CheckNodes(Walk(<<code.tree>>), allowed)

(***************************************************************************)
(* Values: what main() may return and what input_data may be.  Python's    *)
(* None and JSON's null are JNull; a value of type "object" stands for a   *)
(* Python value json.dumps cannot encode (a set, say).                     *)
(***************************************************************************)
JBool(b) == [t |-> "bool", b |-> b]
JNum(n) == [t |-> "num", n |-> n]
JStr(s) == [t |-> "str", s |-> s]
JList(items) == [t |-> "list", items |-> items]
JDict(pairs) == [t |-> "dict", pairs |-> pairs]
Pair(k, v) == [k |-> k, v |-> v]
PyObject == [t |-> "object"]

Digits == <<"0", "1", "2", "3", "4", "5", "6", "7", "8", "9">>
DigitOf(tok) == CHOOSE n \in 0..9 : Digits[n + 1] = tok
IsDigit(tok) == \E n \in 0..9 : Digits[n + 1] = tok

\* bool(v) in Python.
Truthy(v) ==
  CASE v.t = "null" -> FALSE
    [] v.t = "bool" -> v.b
    [] v.t = "num" -> v.n # 0
    [] v.t = "str" -> v.s # <<>>
    [] v.t = "list" -> v.items # <<>>
    [] v.t = "dict" -> v.pairs # <<>>
    [] OTHER -> TRUE

\* The two notations a value is written in.
PyLang == [null |-> "None", true |-> "True", false |-> "False", quote |-> "'"]
JsonLang == [null |-> "null", true |-> "true", false |-> "false", quote |-> "\""]

\* repr(v) (lang = PyLang) and json.dumps(v) (lang = JsonLang) on one line,
\* items separated by ", " and keys from values by ": ".
RECURSIVE Render(_, _)
Render(v, lang) ==
  CASE v.t = "null" -> <<lang.null>>
    [] v.t = "bool" -> IF v.b THEN <<lang.true>> ELSE <<lang.false>>
    [] v.t = "num" -> <<Digits[v.n + 1]>>
    [] v.t = "str" -> <<lang.quote>> \o v.s \o <<lang.quote>>
    [] v.t = "list" ->
         <<"[">> \o
         Join([i \in 1..Len(v.items) |-> Render(v.items[i], lang)], <<",", " ">>) \o
         <<"]">>
    [] v.t = "dict" ->
         <<"{">> \o
         Join([i \in 1..Len(v.pairs) |->
                 <<lang.quote>> \o v.pairs[i].k \o <<lang.quote, ":", " ">> \o
                 Render(v.pairs[i].v, lang)], <<",", " ">>) \o
         <<"}">>

Whitespace == {" ", "\n"}

RECURSIVE SkipWs(_, _)
SkipWs(toks, i) ==
  IF i <= Len(toks) /\ toks[i] \in Whitespace THEN SkipWs(toks, i + 1) ELSE i

ParseFail == [ok |-> FALSE, v |-> JNull, i |-> 0]
Parsed(v, i) == [ok |-> TRUE, v |-> v, i |-> i]

\* The index of the quote that closes a string opened before i, or 0.
RECURSIVE ClosingQuote(_, _, _)
ClosingQuote(toks, i, q) ==
  IF i > Len(toks) THEN 0
  ELSE IF toks[i] = q THEN i
  ELSE ClosingQuote(toks, i + 1, q)

\* One value read from toks at i: [ok, v, i] with i the index after it.
RECURSIVE ParseValue(_, _, _), ParseItems(_, _, _, _), ParsePairs(_, _, _, _)
ParseValue(toks, i0, lang) ==
  LET i == SkipWs(toks, i0) IN
  IF i > Len(toks) THEN ParseFail
  ELSE LET tok == toks[i] IN
    CASE tok = lang.null -> Parsed(JNull, i + 1)
      [] tok = lang.true -> Parsed(JBool(TRUE), i + 1)
      [] tok = lang.false -> Parsed(JBool(FALSE), i + 1)
      [] IsDigit(tok) -> Parsed(JNum(DigitOf(tok)), i + 1)
      [] tok = lang.quote ->
           LET c == ClosingQuote(toks, i + 1, lang.quote) IN
           IF c = 0 THEN ParseFail
           ELSE Parsed(JStr(SubSeq(toks, i + 1, c - 1)), c + 1)
      [] tok = "[" ->
           IF SkipWs(toks, i + 1) <= Len(toks) /\ toks[SkipWs(toks, i + 1)] = "]"
           THEN Parsed(JList(<<>>), SkipWs(toks, i + 1) + 1)
           ELSE ParseItems(toks, i + 1, lang, <<>>)
      [] tok = "{" ->
           IF SkipWs(toks, i + 1) <= Len(toks) /\ toks[SkipWs(toks, i + 1)] = "}"
           THEN Parsed(JDict(<<>>), SkipWs(toks, i + 1) + 1)
           ELSE ParsePairs(toks, i + 1, lang, <<>>)
      [] OTHER -> ParseFail

ParseItems(toks, i, lang, acc) ==
  LET r == ParseValue(toks, i, lang) IN
  IF ~r.ok THEN ParseFail
  ELSE LET j == SkipWs(toks, r.i) IN
    IF j > Len(toks) THEN ParseFail
    ELSE IF toks[j] = "," THEN ParseItems(toks, j + 1, lang, Append(acc, r.v))
    ELSE IF toks[j] = "]" THEN Parsed(JList(Append(acc, r.v)), j + 1)
    ELSE ParseFail

ParsePairs(toks, i, lang, acc) ==
  LET k == ParseValue(toks, i, lang) IN
  IF ~k.ok \/ k.v.t # "str" THEN ParseFail
  ELSE LET c == SkipWs(toks, k.i) IN
    IF c > Len(toks) \/ toks[c] # ":" THEN ParseFail
    ELSE LET r == ParseValue(toks, c + 1, lang) IN
      IF ~r.ok THEN ParseFail
      ELSE LET j == SkipWs(toks, r.i) IN
        IF j > Len(toks) THEN ParseFail
        ELSE IF toks[j] = ","
             THEN ParsePairs(toks, j + 1, lang, Append(acc, Pair(k.v.s, r.v)))
        ELSE IF toks[j] = "}"
             THEN Parsed(JDict(Append(acc, Pair(k.v.s, r.v))), j + 1)
        ELSE ParseFail

\* A whole text read as one value: json.loads(text) with lang = JsonLang
\* (~ok is JSONDecodeError), the interpreter evaluating a literal of the
\* script with lang = PyLang.
Loads(toks, lang) ==
  LET r == ParseValue(toks, 1, lang) IN
  IF r.ok /\ SkipWs(toks, r.i) > Len(toks) THEN r ELSE ParseFail

\* The values of nesting depth at most d: scalars, lists of at most one
\* item and mappings of at most one key.
Scalars ==
  {JNull, JBool(TRUE), JBool(FALSE), JNum(0), JNum(1), JStr(<<>>), JStr(<<"a">>)}

RECURSIVE JsonValues(_)
JsonValues(d) ==
  IF d = 0 THEN Scalars
  ELSE Scalars
       \cup {JList(<<>>), JDict(<<>>)}
       \cup {JList(<<v>>) : v \in JsonValues(d - 1)}
       \cup {JDict(<<Pair(<<"k">>, v)>>) : v \in JsonValues(d - 1)}

(***************************************************************************)
(* The submitted code.  The validator reads its syntax tree; the child     *)
(* runs it: the code prints some lines to stdout and then main() returns   *)
(* a value, returns input_data, raises an Exception, calls sys.exit(code)  *)
(* or never finishes.                                                      *)
(***************************************************************************)
ModuleNames ==
  { <<"math">>, <<"os">>, <<"math", ".", "os">>, <<"os", ".", "math">> }

LeafStmts ==
  {Import(<<n>>) : n \in ModuleNames}
  \cup {Import(<< <<"math">>, <<"os">> >>)}
  \cup {ImportFrom(n) : n \in ModuleNames}
  \cup {RelativeImport(<< <<"os">> >>)}
  \cup {Pass}

Stmts == LeafStmts \cup {FunctionDef(<<s>>) : s \in LeafStmts}

RECURSIVE SeqsUpTo(_, _)
SeqsUpTo(S, n) ==
  IF n = 0 THEN {<<>>}
  ELSE SeqsUpTo(S, n - 1) \cup
       {Append(q, x) : q \in {p \in SeqsUpTo(S, n - 1) : Len(p) = n - 1}, x \in S}

End(k, v, code) == [k |-> k, v |-> v, code |-> code]
Returns(v) == End("return", v, 0)
ReturnsInput == End("return_input", JNull, 0)
Raises == End("raise", JNull, 0)
Hangs == End("hang", JNull, 0)
Exits(code) == End("exit", JNull, code)

ExceptionMessage == <<"boom">>

UserLines == { <<"RESULT_START">>, <<"RESULT_END">>, <<"5">>, <<"x">>, <<>> }

Run(prints, end) == [prints |-> prints, end |-> end]

Runs ==
  {Run(<<>>, e) : e \in {Returns(v) : v \in JsonValues(MaxDepth) \cup {PyObject}}
                        \cup {ReturnsInput, Raises, Hangs, Exits(0), Exits(1)}}
  \cup {Run(p, e) : p \in SeqsUpTo(UserLines, MaxPrints),
                    e \in {Returns(JNum(1)), Returns(PyObject), Raises, Hangs, Exits(0)}}
  \cup {Run(<< <<"RESULT_START">>, <<"5">>, <<"RESULT_END">> >>, e) :
          e \in {Raises, Exits(1), Hangs}}

Code(parses, tree, run) == [parses |-> parses, tree |-> tree, run |-> run]

\* `def main(): ...` and nothing else.
PlainTree == Module(<<FunctionDef(<<Pass>>)>>)

Codes ==
  {Code(FALSE, Module(<<>>), Run(<<>>, Returns(JNum(1))))}
  \cup {Code(TRUE, Module(b), Run(<<>>, Returns(JNum(1)))) : b \in SeqsUpTo(Stmts, MaxStmts)}
  \cup {Code(TRUE, PlainTree, r) : r \in Runs}

\* The arguments of execute_code; input_data = None is JNull.
Requests ==
  {[code |-> c, input |-> JNull] : c \in Codes}
  \cup {[code |-> Code(TRUE, PlainTree, Run(<<>>, ReturnsInput)), input |-> v] :
          v \in JsonValues(MaxDepth)}

(***************************************************************************)
(* __init__: the three limits of an executor.  An argument is given or     *)
(* left to its default.                                                    *)
(***************************************************************************)
\* def __init__(self, max_execution_time: int = 30, max_memory_mb: int = 512, ...)
DefaultMaxExecutionTime == 30
DefaultMaxMemoryMb == 512

DefaultAllowedModules ==
  {<<"math">>, <<"random">>, <<"datetime">>, <<"json">>,
   <<"collections">>, <<"statistics">>, <<"re">>, <<"itertools">>}

NotGiven == [given |-> FALSE, set |-> {}]
Given(S) == [given |-> TRUE, set |-> S]

\* allowed_modules or {...}
init(max_execution_time, max_memory_mb, allowed_modules) ==
  [max_execution_time |-> max_execution_time,
   max_memory_mb |-> max_memory_mb,
   allowed_modules |->
     IF allowed_modules.given /\ allowed_modules.set # {}
     THEN allowed_modules.set ELSE DefaultAllowedModules]

\* print("Warning: Failed to set resource limits", file=sys.stderr)
LimitWarning == <<"Warning: Failed to set resource limits", "\n">>

\* _limit_resources: the address-space limit it sets, none when setrlimit fails.
limit_resources(self, supported) ==
  IF supported THEN {self.max_memory_mb * 1024 * 1024} ELSE {}

(***************************************************************************)
(* The state: one executor, the call of execute_code in progress on it,    *)
(* the temporary directory, and the child process of the call.             *)
(***************************************************************************)
VARIABLES
  limits,        \* self.max_execution_time, self.max_memory_mb, self.allowed_modules
  calls,         \* execute_code calls started so far
  pc,            \* where the call in progress is
  req,           \* its arguments: code, input_data
  wrapped_code,  \* the harness text built around the code
  script_path,   \* <<>> until bound, then <<the name of the temporary file>>
  files,         \* names of the temporary files that exist
  script_text,   \* what is written in the temporary file of this call
  child,         \* the process started by Popen
  clock,         \* time waited in communicate()
  captured,      \* stdout, stderr as returned by communicate()
  pending,       \* the exception or return value travelling through `finally`
  outcome,       \* what the caller gets
  stages         \* the stages this call has entered, in order

vars ==
  <<limits, calls, pc, req, wrapped_code, script_path, files, script_text,
    child, clock, captured, pending, outcome, stages>>

NoRequest == [code |-> Code(TRUE, Module(<<>>), Run(<<>>, Hangs)), input |-> JNull]
NoScript == [input_literal |-> <<>>, code |-> NoRequest.code]
NoCapture == [stdout |-> <<>>, stderr |-> <<>>]

NoChild ==
  [state |-> "none", pc |-> "", i |-> 0, out |-> <<>>, err |-> <<>>,
   returncode |-> 0, memCap |-> {}, script |-> NoScript,
   input_data |-> JNull, result |-> JNull]

\* tempfile.NamedTemporaryFile picks a name no existing file has.
TempName(call) == call

Init ==
  /\ \E allowed \in {NotGiven, Given({}), Given({<<"os">>})} :
       limits = init(MaxTime, 512, allowed)
  /\ calls = 0
  /\ pc = "idle"
  /\ req = NoRequest
  /\ wrapped_code = NoScript
  /\ script_path = <<>>
  /\ files = {}
  /\ script_text = NoScript
  /\ child = NoChild
  /\ clock = 0
  /\ captured = NoCapture
  /\ pending = NoOutcome
  /\ outcome = NoOutcome
  /\ stages = <<>>

(***************************************************************************)
(* execute_code, statement by statement.                                   *)
(***************************************************************************)
\* The caller calls execute_code(code, input_data).
ExecuteCode ==
  /\ pc = "idle"
  /\ calls < MaxCalls
  /\ \E r \in Requests : req' = r
  /\ calls' = calls + 1
  /\ pc' = "validate"
  /\ UNCHANGED <<limits, wrapped_code, script_path, files, script_text, child,
                 clock, captured, pending, outcome, stages>>

\* A mutant of Validate: the error of the validator is dropped.
ValidateIgnored ==
  /\ pc = "validate"
  /\ stages' = Append(stages, "Validator")
  /\ pc' = "wrap"
  /\ UNCHANGED <<limits, calls, req, wrapped_code, script_path, files,
                 script_text, child, clock, captured, pending, outcome>>

\* self._validate_imports(code)
Validate ==
  /\ pc = "validate"
  /\ stages' = Append(stages, "Validator")
  /\ LET e == validate_imports(req.code, limits.allowed_modules) IN
       IF e.kind = "raise"
       THEN /\ outcome' = e
            /\ pc' = "done"
       ELSE /\ outcome' = outcome
            /\ pc' = "wrap"
  /\ UNCHANGED <<limits, calls, req, wrapped_code, script_path, files,
                 script_text, child, clock, captured, pending>>

\* str(v), as an f-string formats v: a string is written without quotes.
PyStr(v) == IF v.t = "str" THEN v.s ELSE Render(v, PyLang)

\* wrapped_code = f"""... input_data = {input_data if input_data else {}} ..."""
Wrap ==
  /\ pc = "wrap"
  /\ stages' = Append(stages, "Materializer")
  /\ wrapped_code' =
       [input_literal |-> PyStr(IF Truthy(req.input) THEN req.input ELSE JDict(<<>>)),
        code |-> req.code]
  /\ pc' = "create"
  /\ UNCHANGED <<limits, calls, req, script_path, files, script_text, child,
                 clock, captured, pending, outcome>>

\* script_path = self._create_temporary_script(wrapped_code): the file is
\* created, then written; a failing write (OSError, UnicodeEncodeError)
\* leaves execute_code before its try block.
CreateTemporaryScript ==
  /\ pc = "create"
  /\ stages' = Append(stages, "Launcher")
  /\ files' = files \cup {TempName(calls)}
  /\ \E written \in BOOLEAN :
       IF written
       THEN /\ script_text' = wrapped_code
            /\ script_path' = <<TempName(calls)>>
            /\ outcome' = outcome
            /\ pc' = "popen"
       ELSE /\ script_text' = script_text
            /\ script_path' = script_path
            /\ outcome' = Raise("OSError", <<"write">>)
            /\ pc' = "done"
  /\ UNCHANGED <<limits, calls, req, wrapped_code, child, clock, captured, pending>>

\* process = subprocess.Popen([sys.executable, script_path], ...): no
\* preexec_fn, so nothing sets a limit in the child.
Popen ==
  /\ pc = "popen"
  /\ \E spawned \in BOOLEAN :
       IF spawned
       THEN /\ child' = [NoChild EXCEPT !.state = "running", !.pc = "start",
                                        !.script = script_text]
            /\ pending' = pending
            /\ pc' = "communicate"
       ELSE /\ child' = child
            /\ pending' = Raise("OSError", <<"spawn">>)
            /\ pc' = "finally"
  /\ clock' = 0
  /\ UNCHANGED <<limits, calls, req, wrapped_code, script_path, files,
                 script_text, captured, outcome, stages>>

\* Time passes while communicate() waits for a running child.
Tick ==
  /\ pc = "communicate"
  /\ child.state = "running"
  /\ clock < limits.max_execution_time
  /\ clock' = clock + 1
  /\ UNCHANGED <<limits, calls, pc, req, wrapped_code, script_path, files,
                 script_text, child, captured, pending, outcome, stages>>

\* stdout, stderr = process.communicate(timeout=...): the child has exited.
CommunicateReturns ==
  /\ pc = "communicate"
  /\ child.state = "exited"
  /\ captured' = [stdout |-> child.out, stderr |-> child.err]
  /\ pc' = "check"
  /\ UNCHANGED <<limits, calls, req, wrapped_code, script_path, files,
                 script_text, child, clock, pending, outcome, stages>>

\* A mutant of CommunicateTimesOut: communicate() without a timeout goes on
\* waiting when the time is up.
CommunicateWaitsOn ==
  /\ pc = "communicate"
  /\ child.state = "running"
  /\ clock = limits.max_execution_time
  /\ UNCHANGED vars

\* communicate() raises TimeoutExpired: the time is up and the child runs.
CommunicateTimesOut ==
  /\ pc = "communicate"
  /\ child.state = "running"
  /\ clock = limits.max_execution_time
  /\ pc' = "kill"
  /\ UNCHANGED <<limits, calls, req, wrapped_code, script_path, files,
                 script_text, child, clock, captured, pending, outcome, stages>>

\* A mutant of TimeoutError: the timeout is reported as a failed execution.
TimeoutErrorAsFailure(self) ==
  Raise("CodeExecutionError", <<"Code execution failed with error:", "\n">>)

TimeoutError(self) ==
  Raise("CodeExecutionError",
        <<"Code execution exceeded time limit of ",
          Digits[self.max_execution_time + 1], " seconds">>)

\* A mutant of Kill: the exception is raised, the child is left alone.
KillForgotten ==
  /\ pc = "kill"
  /\ pending' = TimeoutError(limits)
  /\ pc' = "finally"
  /\ UNCHANGED <<limits, calls, req, wrapped_code, script_path, files,
                 script_text, child, clock, captured, outcome, stages>>

\* A mutant of Kill: after the kill, what the child wrote is extracted.
KillThenExtract ==
  /\ pc = "kill"
  /\ child' = IF child.state = "running"
              THEN [child EXCEPT !.state = "killed"] ELSE child
  /\ captured' = [stdout |-> child.out, stderr |-> child.err]
  /\ pc' = "extract"
  /\ UNCHANGED <<limits, calls, req, wrapped_code, script_path, files,
                 script_text, clock, pending, outcome, stages>>

\* A mutant of Kill: after a timeout the executor allows itself more time.
KillExtendsLimit ==
  /\ pc = "kill"
  /\ child' = IF child.state = "running"
              THEN [child EXCEPT !.state = "killed"] ELSE child
  /\ pending' = TimeoutError(limits)
  /\ limits' = [limits EXCEPT !.max_execution_time = @ + 1]
  /\ pc' = "finally"
  /\ UNCHANGED <<calls, req, wrapped_code, script_path, files,
                 script_text, clock, captured, outcome, stages>>

\* except subprocess.TimeoutExpired: process.kill(); raise CodeExecutionError(...)
Kill ==
  /\ pc = "kill"
  /\ child' = IF child.state = "running"
              THEN [child EXCEPT !.state = "killed"] ELSE child
  /\ pending' = TimeoutError(limits)
  /\ pc' = "finally"
  /\ UNCHANGED <<limits, calls, req, wrapped_code, script_path, files,
                 script_text, clock, captured, outcome, stages>>

ExecutionFailed(stderr_text) ==
  Raise("CodeExecutionError",
        <<"Code execution failed with error:", "\n">> \o stderr_text)

\* A mutant of CheckReturncode: the exit status is not looked at.
CheckReturncodeSkipped ==
  /\ pc = "check"
  /\ pc' = "extract"
  /\ UNCHANGED <<limits, calls, req, wrapped_code, script_path, files,
                 script_text, child, clock, captured, pending, outcome, stages>>

\* A mutant of CheckReturncode: the error does not carry stderr.
CheckReturncodeBare ==
  /\ pc = "check"
  /\ IF child.returncode # 0
     THEN /\ pending' = ExecutionFailed(<<>>)
          /\ pc' = "finally"
     ELSE /\ pending' = pending
          /\ pc' = "extract"
  /\ UNCHANGED <<limits, calls, req, wrapped_code, script_path, files,
                 script_text, child, clock, captured, outcome, stages>>

\* if process.returncode != 0: raise CodeExecutionError(...)
CheckReturncode ==
  /\ pc = "check"
  /\ IF child.returncode # 0
     THEN /\ pending' = ExecutionFailed(captured.stderr)
          /\ pc' = "finally"
     ELSE /\ pending' = pending
          /\ pc' = "extract"
  /\ UNCHANGED <<limits, calls, req, wrapped_code, script_path, files,
                 script_text, child, clock, captured, outcome, stages>>

\* line.strip() is not empty
NotBlank(line) == \E i \in 1..Len(line) : line[i] \notin Whitespace

\* The loop over stdout.split('\n'): result_lines.
RECURSIVE ScanLines(_, _, _)
ScanLines(lines, capture_result, result_lines) ==
  IF lines = <<>> THEN result_lines
  ELSE IF Head(lines) = <<"RESULT_START">>
       THEN ScanLines(Tail(lines), TRUE, result_lines)
  ELSE IF Head(lines) = <<"RESULT_END">>
       THEN ScanLines(Tail(lines), FALSE, result_lines)
  ELSE IF capture_result /\ NotBlank(Head(lines))
       THEN ScanLines(Tail(lines), capture_result, Append(result_lines, Head(lines)))
  ELSE ScanLines(Tail(lines), capture_result, result_lines)

ResultLines(stdout_text) == ScanLines(Split(stdout_text, "\n"), FALSE, <<>>)

\* A mutant of Extracted: a stdout without a result is a parse error.
ExtractedRequiresResult(stdout_text, stderr_text) ==
  LET r == Loads(Join(ResultLines(stdout_text), <<"\n">>), JsonLang) IN
  IF r.ok THEN Return(r.v, stdout_text, stderr_text)
  ELSE Raise("CodeExecutionError", <<"Failed to parse execution result">>)

\* A mutant of Extracted: only the text of the result is handed back.
ExtractedKeepsPayloadOnly(stdout_text, stderr_text) ==
  LET result_lines == ResultLines(stdout_text) IN
  IF result_lines = <<>> THEN Return(JNull, stdout_text, stderr_text)
  ELSE LET r == Loads(Join(result_lines, <<"\n">>), JsonLang) IN
       IF r.ok THEN Return(r.v, Join(result_lines, <<"\n">>), stderr_text)
       ELSE Raise("CodeExecutionError", <<"Failed to parse execution result">>)

\* What the parsing of stdout ends in: the triple or the parse error.
Extracted(stdout_text, stderr_text) ==
  LET result_lines == ResultLines(stdout_text) IN
  IF result_lines = <<>> THEN Return(JNull, stdout_text, stderr_text)
  ELSE LET r == Loads(Join(result_lines, <<"\n">>), JsonLang) IN
       IF r.ok THEN Return(r.v, stdout_text, stderr_text)
       ELSE Raise("CodeExecutionError", <<"Failed to parse execution result">>)

\* Parse the result from stdout; return result, stdout, stderr
Extract ==
  /\ pc = "extract"
  /\ stages' = Append(stages, "Extractor")
  /\ pending' = Extracted(captured.stdout, captured.stderr)
  /\ pc' = "finally"
  /\ UNCHANGED <<limits, calls, req, wrapped_code, script_path, files,
                 script_text, child, clock, captured, outcome>>

\* A mutant of Finally: the OSError of a failed unlink leaves execute_code.
FinallyRaises ==
  /\ pc = "finally"
  /\ \E unlinked \in BOOLEAN :
       /\ files' = IF unlinked THEN files \ {script_path[1]} ELSE files
       /\ outcome' = IF unlinked THEN pending ELSE Raise("OSError", <<"unlink">>)
  /\ pc' = "done"
  /\ UNCHANGED <<limits, calls, req, wrapped_code, script_path, script_text,
                 child, clock, captured, pending, stages>>

\* finally: os.unlink(script_path), an OSError swallowed; then the pending
\* exception or return value leaves execute_code.
Finally ==
  /\ pc = "finally"
  /\ \E unlinked \in BOOLEAN :
       files' = IF unlinked THEN files \ {script_path[1]} ELSE files
  /\ outcome' = pending
  /\ pc' = "done"
  /\ UNCHANGED <<limits, calls, req, wrapped_code, script_path, script_text,
                 child, clock, captured, pending, stages>>

\* The call is over: its locals are gone, the executor and the files stay.
ReturnToCaller ==
  /\ pc = "done"
  /\ pc' = "idle"
  /\ req' = NoRequest
  /\ wrapped_code' = NoScript
  /\ script_path' = <<>>
  /\ script_text' = NoScript
  /\ child' = NoChild
  /\ clock' = 0
  /\ captured' = NoCapture
  /\ pending' = NoOutcome
  /\ outcome' = NoOutcome
  /\ stages' = <<>>
  /\ UNCHANGED <<limits, calls, files>>

(***************************************************************************)
(* The child: the interpreter running the script.  It runs while the       *)
(* parent waits within the time limit, and on until the parent kills it.   *)
(***************************************************************************)
ChildRuns ==
  /\ child.state = "running"
  /\ \/ pc = "communicate" /\ clock < limits.max_execution_time
     \/ pc = "kill"

Traceback(type, msg) ==
  <<"Traceback (most recent call last):", "\n", type, ": ">> \o msg \o <<"\n">>

\* print("ERROR:", str(e), file=sys.stderr); traceback.print_exc(file=sys.stderr)
ErrorReport(type, msg) ==
  <<"ERROR:", " ">> \o msg \o <<"\n">> \o Traceback(type, msg)

Exited(c, returncode) == [c EXCEPT !.state = "exited", !.returncode = returncode]

ChildUnchanged ==
  UNCHANGED <<limits, calls, pc, req, wrapped_code, script_path, files,
              script_text, clock, captured, pending, outcome, stages>>

\* input_data = <the interpolated text>: a text that is no literal is an
\* uncaught NameError, outside the try of the harness.
ChildStart ==
  /\ ChildRuns
  /\ child.pc = "start"
  /\ LET r == Loads(child.script.input_literal, PyLang) IN
       child' = IF r.ok
                THEN [child EXCEPT !.pc = "main", !.input_data = r.v]
                ELSE Exited([child EXCEPT
                               !.pc = "crashed",
                               !.err = @ \o Traceback("NameError",
                                                      child.script.input_literal)], 1)
  /\ ChildUnchanged

\* The submitted code prints a line.
ChildPrint ==
  /\ ChildRuns
  /\ child.pc = "main"
  /\ child.i < Len(child.script.code.run.prints)
  /\ child' = [child EXCEPT
                 !.i = @ + 1,
                 !.out = @ \o child.script.code.run.prints[child.i + 1] \o <<"\n">>]
  /\ ChildUnchanged

\* result = main() returns, raises (except Exception: report, sys.exit(1))
\* or leaves by SystemExit, which `except Exception` does not catch.
ChildMainEnds ==
  /\ ChildRuns
  /\ child.pc = "main"
  /\ child.i = Len(child.script.code.run.prints)
  /\ LET end == child.script.code.run.end IN
       /\ end.k # "hang"
       /\ child' =
            CASE end.k = "return" ->
                   [child EXCEPT !.pc = "print_start", !.result = end.v]
              [] end.k = "return_input" ->
                   [child EXCEPT !.pc = "print_start", !.result = child.input_data]
              [] end.k = "raise" ->
                   Exited([child EXCEPT
                             !.pc = "failed",
                             !.err = @ \o ErrorReport("Exception", ExceptionMessage)], 1)
              [] end.k = "exit" ->
                   Exited([child EXCEPT !.pc = "exited"], end.code)
  /\ ChildUnchanged

\* print("RESULT_START")
ChildPrintStart ==
  /\ ChildRuns
  /\ child.pc = "print_start"
  /\ child' = [child EXCEPT !.pc = "dumps", !.out = @ \o <<"RESULT_START", "\n">>]
  /\ ChildUnchanged

\* print(json.dumps(result)); a TypeError of json.dumps is an Exception.
ChildDumps ==
  /\ ChildRuns
  /\ child.pc = "dumps"
  /\ child' =
       IF child.result.t = "object"
       THEN Exited([child EXCEPT
                      !.pc = "failed",
                      !.err = @ \o ErrorReport("TypeError",
                                               <<"Object is not JSON serializable">>)], 1)
       ELSE [child EXCEPT !.pc = "print_end",
                          !.out = @ \o Render(child.result, JsonLang) \o <<"\n">>]
  /\ ChildUnchanged

\* print("RESULT_END")
ChildPrintEnd ==
  /\ ChildRuns
  /\ child.pc = "print_end"
  /\ child' = [child EXCEPT !.pc = "exit", !.out = @ \o <<"RESULT_END", "\n">>]
  /\ ChildUnchanged

\* The script ends: exit status 0.
ChildExit ==
  /\ ChildRuns
  /\ child.pc = "exit"
  /\ child' = Exited([child EXCEPT !.pc = "exited"], 0)
  /\ ChildUnchanged

Next ==
  \/ ExecuteCode
  \/ Validate
  \/ Wrap
  \/ CreateTemporaryScript
  \/ Popen
  \/ Tick
  \/ CommunicateReturns
  \/ CommunicateTimesOut
  \/ Kill
  \/ CheckReturncode
  \/ Extract
  \/ Finally
  \/ ReturnToCaller
  \/ ChildStart
  \/ ChildPrint
  \/ ChildMainEnds
  \/ ChildPrintStart
  \/ ChildDumps
  \/ ChildPrintEnd
  \/ ChildExit

Spec == Init /\ [][Next]_vars

(***************************************************************************)
(* The same program with its scheduling: the thread that runs execute_code *)
(* is not stopped for ever and the clock of communicate() advances, so a   *)
(* statement of the parent that can run does run.  Nothing is assumed of   *)
(* the child: it may stall at any line or never finish.                    *)
(***************************************************************************)
ParentSteps ==
  \/ Validate
  \/ Wrap
  \/ CreateTemporaryScript
  \/ Popen
  \/ Tick
  \/ CommunicateReturns
  \/ CommunicateTimesOut
  \/ Kill
  \/ CheckReturncode
  \/ Extract
  \/ Finally

\* What the caller asks for here: code that does not parse, and code whose
\* child returns, cannot encode its result, raises, exits, crashes on its
\* first line, or never finishes, silently or after a line of output.
TerminatingRequests ==
  {[code |-> Code(FALSE, Module(<<>>), Run(<<>>, Returns(JNum(1)))), input |-> JNull]}
  \cup {[code |-> Code(TRUE, PlainTree, Run(<<>>, e)), input |-> JNull] :
          e \in {Returns(JNum(1)), Returns(PyObject), Raises, Exits(0), Exits(1), Hangs}}
  \cup {[code |-> Code(TRUE, PlainTree, Run(<< <<"x">> >>, Hangs)), input |-> JNull],
        [code |-> Code(TRUE, PlainTree, Run(<<>>, ReturnsInput)), input |-> JStr(<<"a">>)]}

\* The caller calls execute_code(code, input_data).
ExecuteCodeFair ==
  /\ pc = "idle"
  /\ calls < MaxCalls
  /\ \E r \in TerminatingRequests : req' = r
  /\ calls' = calls + 1
  /\ pc' = "validate"
  /\ UNCHANGED <<limits, wrapped_code, script_path, files, script_text, child,
                 clock, captured, pending, outcome, stages>>

ChildSteps ==
  \/ ChildStart
  \/ ChildPrint
  \/ ChildMainEnds
  \/ ChildPrintStart
  \/ ChildDumps
  \/ ChildPrintEnd
  \/ ChildExit

NextFair ==
  \/ ExecuteCodeFair
  \/ ReturnToCaller
  \/ ParentSteps
  \/ ChildSteps

SpecFair == Init /\ [][NextFair]_vars /\ WF_vars(ParentSteps)

(***************************************************************************)
(* Several callers at once.  Each thread runs execute_code on the same     *)
(* executor; the threads share the executor's limits and the temporary     *)
(* directory, and everything else is local to a call.  In this             *)
(* specification pc, req, wrapped_code, script_path, clock, captured,      *)
(* pending, outcome and stages hold one value per thread, child holds the  *)
(* processes each thread's call has spawned, and script_text holds what    *)
(* is written in each temporary file, by name.                             *)
(***************************************************************************)
Threads == {"t1", "t2"}

\* The names NamedTemporaryFile can give.
TempNames == 1..MaxCalls

\* What the threads ask for: main() returns input_data, or never finishes.
ConcurrentRequests ==
  {[code |-> Code(TRUE, PlainTree, Run(<<>>, ReturnsInput)), input |-> v] :
     v \in {JNum(1), JList(<<JNum(1)>>)}}
  \cup {[code |-> Code(TRUE, PlainTree, Run(<<>>, Hangs)), input |-> JNull]}

\* The harness text built around the code of a request.
Wrapped(request) ==
  [input_literal |->
     PyStr(IF Truthy(request.input) THEN request.input ELSE JDict(<<>>)),
   code |-> request.code]

\* The process Popen starts on the file at path.
Spawned(path) ==
  [state |-> "running", pc |-> "start", i |-> 0, out |-> <<>>, err |-> <<>>,
   returncode |-> 0, memCap |-> {}, script |-> NoScript,
   input_data |-> JNull, result |-> JNull, path |-> path]

\* One step of the interpreter running the script c.script: the harness
\* line by line, as in ChildStart .. ChildExit.
Stepped(c) ==
  LET run == c.script.code.run IN
  CASE c.pc = "start" ->
         LET r == Loads(c.script.input_literal, PyLang) IN
         IF r.ok
         THEN [c EXCEPT !.pc = "main", !.input_data = r.v]
         ELSE Exited([c EXCEPT
                        !.pc = "crashed",
                        !.err = @ \o Traceback("NameError", c.script.input_literal)], 1)
    [] c.pc = "main" /\ c.i < Len(run.prints) ->
         [c EXCEPT !.i = @ + 1, !.out = @ \o run.prints[c.i + 1] \o <<"\n">>]
    [] c.pc = "main" /\ c.i = Len(run.prints) ->
         CASE run.end.k = "return" ->
                [c EXCEPT !.pc = "print_start", !.result = run.end.v]
           [] run.end.k = "return_input" ->
                [c EXCEPT !.pc = "print_start", !.result = c.input_data]
           [] run.end.k = "raise" ->
                Exited([c EXCEPT
                          !.pc = "failed",
                          !.err = @ \o ErrorReport("Exception", ExceptionMessage)], 1)
           [] run.end.k = "exit" ->
                Exited([c EXCEPT !.pc = "exited"], run.end.code)
           [] OTHER -> c
    [] c.pc = "print_start" ->
         [c EXCEPT !.pc = "dumps", !.out = @ \o <<"RESULT_START", "\n">>]
    [] c.pc = "dumps" ->
         IF c.result.t = "object"
         THEN Exited([c EXCEPT
                        !.pc = "failed",
                        !.err = @ \o ErrorReport("TypeError",
                                                 <<"Object is not JSON serializable">>)], 1)
         ELSE [c EXCEPT !.pc = "print_end",
                        !.out = @ \o Render(c.result, JsonLang) \o <<"\n">>]
    [] c.pc = "print_end" ->
         [c EXCEPT !.pc = "exit", !.out = @ \o <<"RESULT_END", "\n">>]
    [] c.pc = "exit" ->
         Exited([c EXCEPT !.pc = "exited"], 0)
    [] OTHER -> c

\* The process object of the call of thread t: the one Popen returned last.
Process(t) == child[t][Len(child[t])]

InitConcurrent ==
  /\ limits = init(MaxTime, 512, NotGiven)
  /\ calls = 0
  /\ pc = [t \in Threads |-> "idle"]
  /\ req = [t \in Threads |-> NoRequest]
  /\ wrapped_code = [t \in Threads |-> NoScript]
  /\ script_path = [t \in Threads |-> <<>>]
  /\ files = {}
  /\ script_text = [n \in TempNames |-> NoScript]
  /\ child = [t \in Threads |-> <<>>]
  /\ clock = [t \in Threads |-> 0]
  /\ captured = [t \in Threads |-> NoCapture]
  /\ pending = [t \in Threads |-> NoOutcome]
  /\ outcome = [t \in Threads |-> NoOutcome]
  /\ stages = [t \in Threads |-> <<>>]

\* Thread t calls execute_code(code, input_data).
ThreadExecuteCode(t) ==
  /\ pc[t] = "idle"
  /\ calls < MaxCalls
  /\ \E r \in ConcurrentRequests : req' = [req EXCEPT ![t] = r]
  /\ calls' = calls + 1
  /\ pc' = [pc EXCEPT ![t] = "validate"]
  /\ UNCHANGED <<limits, wrapped_code, script_path, files, script_text, child,
                 clock, captured, pending, outcome, stages>>

\* self._validate_imports(code)
ThreadValidate(t) ==
  /\ pc[t] = "validate"
  /\ stages' = [stages EXCEPT ![t] = Append(@, "Validator")]
  /\ LET e == validate_imports(req[t].code, limits.allowed_modules) IN
       IF e.kind = "raise"
       THEN /\ outcome' = [outcome EXCEPT ![t] = e]
            /\ pc' = [pc EXCEPT ![t] = "done"]
       ELSE /\ outcome' = outcome
            /\ pc' = [pc EXCEPT ![t] = "wrap"]
  /\ UNCHANGED <<limits, calls, req, wrapped_code, script_path, files,
                 script_text, child, clock, captured, pending>>

\* wrapped_code = f"""..."""
ThreadWrap(t) ==
  /\ pc[t] = "wrap"
  /\ stages' = [stages EXCEPT ![t] = Append(@, "Materializer")]
  /\ wrapped_code' = [wrapped_code EXCEPT ![t] = Wrapped(req[t])]
  /\ pc' = [pc EXCEPT ![t] = "create"]
  /\ UNCHANGED <<limits, calls, req, script_path, files, script_text, child,
                 clock, captured, pending, outcome>>

\* A mutant of ThreadCreateTemporaryScript: the name is not looked up in
\* the directory, the file of another call may be written over.
ThreadCreateTemporaryScriptAnyName(t) ==
  /\ pc[t] = "create"
  /\ stages' = [stages EXCEPT ![t] = Append(@, "Launcher")]
  /\ \E n \in TempNames, written \in BOOLEAN :
       /\ files' = files \cup {n}
       /\ IF written
          THEN /\ script_text' = [script_text EXCEPT ![n] = wrapped_code[t]]
               /\ script_path' = [script_path EXCEPT ![t] = <<n>>]
               /\ outcome' = outcome
               /\ pc' = [pc EXCEPT ![t] = "popen"]
          ELSE /\ script_text' = script_text
               /\ script_path' = script_path
               /\ outcome' = [outcome EXCEPT ![t] = Raise("OSError", <<"write">>)]
               /\ pc' = [pc EXCEPT ![t] = "done"]
  /\ UNCHANGED <<limits, calls, req, wrapped_code, child, clock, captured, pending>>

\* script_path = self._create_temporary_script(wrapped_code):
\* NamedTemporaryFile creates a file under a name no file of the directory
\* has; then the script is written to it.
ThreadCreateTemporaryScript(t) ==
  /\ pc[t] = "create"
  /\ stages' = [stages EXCEPT ![t] = Append(@, "Launcher")]
  /\ \E n \in TempNames \ files, written \in BOOLEAN :
       /\ files' = files \cup {n}
       /\ IF written
          THEN /\ script_text' = [script_text EXCEPT ![n] = wrapped_code[t]]
               /\ script_path' = [script_path EXCEPT ![t] = <<n>>]
               /\ outcome' = outcome
               /\ pc' = [pc EXCEPT ![t] = "popen"]
          ELSE /\ script_text' = script_text
               /\ script_path' = script_path
               /\ outcome' = [outcome EXCEPT ![t] = Raise("OSError", <<"write">>)]
               /\ pc' = [pc EXCEPT ![t] = "done"]
  /\ UNCHANGED <<limits, calls, req, wrapped_code, child, clock, captured, pending>>

\* A mutant of ThreadPopen: a second interpreter is started on the script
\* while the first one runs.
ThreadPopenAgain(t) ==
  /\ pc[t] = "popen"
  /\ child' = [child EXCEPT ![t] = Append(@, Spawned(script_path[t][1]))]
  /\ pc' = [pc EXCEPT ![t] = IF child[t] = <<>> THEN "popen" ELSE "communicate"]
  /\ clock' = [clock EXCEPT ![t] = 0]
  /\ UNCHANGED <<limits, calls, req, wrapped_code, script_path, files,
                 script_text, captured, pending, outcome, stages>>

\* process = subprocess.Popen([sys.executable, script_path], ...)
ThreadPopen(t) ==
  /\ pc[t] = "popen"
  /\ \E spawned \in BOOLEAN :
       IF spawned
       THEN /\ child' = [child EXCEPT ![t] = Append(@, Spawned(script_path[t][1]))]
            /\ pending' = pending
            /\ pc' = [pc EXCEPT ![t] = "communicate"]
       ELSE /\ child' = child
            /\ pending' = [pending EXCEPT ![t] = Raise("OSError", <<"spawn">>)]
            /\ pc' = [pc EXCEPT ![t] = "finally"]
  /\ clock' = [clock EXCEPT ![t] = 0]
  /\ UNCHANGED <<limits, calls, req, wrapped_code, script_path, files,
                 script_text, captured, outcome, stages>>

\* Time passes while communicate() waits for a running child.
ThreadTick(t) ==
  /\ pc[t] = "communicate"
  /\ Process(t).state = "running"
  /\ clock[t] < limits.max_execution_time
  /\ clock' = [clock EXCEPT ![t] = @ + 1]
  /\ UNCHANGED <<limits, calls, pc, req, wrapped_code, script_path, files,
                 script_text, child, captured, pending, outcome, stages>>

\* stdout, stderr = process.communicate(timeout=...): the child has exited.
ThreadCommunicateReturns(t) ==
  /\ pc[t] = "communicate"
  /\ Process(t).state = "exited"
  /\ captured' = [captured EXCEPT ![t] = [stdout |-> Process(t).out,
                                          stderr |-> Process(t).err]]
  /\ pc' = [pc EXCEPT ![t] = "check"]
  /\ UNCHANGED <<limits, calls, req, wrapped_code, script_path, files,
                 script_text, child, clock, pending, outcome, stages>>

\* communicate() raises TimeoutExpired: the time is up and the child runs.
ThreadCommunicateTimesOut(t) ==
  /\ pc[t] = "communicate"
  /\ Process(t).state = "running"
  /\ clock[t] = limits.max_execution_time
  /\ pc' = [pc EXCEPT ![t] = "kill"]
  /\ UNCHANGED <<limits, calls, req, wrapped_code, script_path, files,
                 script_text, child, clock, captured, pending, outcome, stages>>

\* except subprocess.TimeoutExpired: process.kill(); raise CodeExecutionError(...)
ThreadKill(t) ==
  /\ pc[t] = "kill"
  /\ child' = [child EXCEPT ![t][Len(child[t])].state =
                              IF @ = "running" THEN "killed" ELSE @]
  /\ pending' = [pending EXCEPT ![t] = TimeoutError(limits)]
  /\ pc' = [pc EXCEPT ![t] = "finally"]
  /\ UNCHANGED <<limits, calls, req, wrapped_code, script_path, files,
                 script_text, clock, captured, outcome, stages>>

\* if process.returncode != 0: raise CodeExecutionError(...)
ThreadCheckReturncode(t) ==
  /\ pc[t] = "check"
  /\ IF Process(t).returncode # 0
     THEN /\ pending' = [pending EXCEPT ![t] = ExecutionFailed(captured[t].stderr)]
          /\ pc' = [pc EXCEPT ![t] = "finally"]
     ELSE /\ pending' = pending
          /\ pc' = [pc EXCEPT ![t] = "extract"]
  /\ UNCHANGED <<limits, calls, req, wrapped_code, script_path, files,
                 script_text, child, clock, captured, outcome, stages>>

\* Parse the result from stdout; return result, stdout, stderr
ThreadExtract(t) ==
  /\ pc[t] = "extract"
  /\ stages' = [stages EXCEPT ![t] = Append(@, "Extractor")]
  /\ pending' = [pending EXCEPT ![t] = Extracted(captured[t].stdout,
                                                 captured[t].stderr)]
  /\ pc' = [pc EXCEPT ![t] = "finally"]
  /\ UNCHANGED <<limits, calls, req, wrapped_code, script_path, files,
                 script_text, child, clock, captured, outcome>>

\* finally: os.unlink(script_path), an OSError swallowed.
ThreadFinally(t) ==
  /\ pc[t] = "finally"
  /\ \E unlinked \in BOOLEAN :
       files' = IF unlinked THEN files \ {script_path[t][1]} ELSE files
  /\ outcome' = [outcome EXCEPT ![t] = pending[t]]
  /\ pc' = [pc EXCEPT ![t] = "done"]
  /\ UNCHANGED <<limits, calls, req, wrapped_code, script_path, script_text,
                 child, clock, captured, pending, stages>>

\* The call of thread t is over: its locals are gone.
ThreadReturnToCaller(t) ==
  /\ pc[t] = "done"
  /\ pc' = [pc EXCEPT ![t] = "idle"]
  /\ req' = [req EXCEPT ![t] = NoRequest]
  /\ wrapped_code' = [wrapped_code EXCEPT ![t] = NoScript]
  /\ script_path' = [script_path EXCEPT ![t] = <<>>]
  /\ child' = [child EXCEPT ![t] = <<>>]
  /\ clock' = [clock EXCEPT ![t] = 0]
  /\ captured' = [captured EXCEPT ![t] = NoCapture]
  /\ pending' = [pending EXCEPT ![t] = NoOutcome]
  /\ outcome' = [outcome EXCEPT ![t] = NoOutcome]
  /\ stages' = [stages EXCEPT ![t] = <<>>]
  /\ UNCHANGED <<limits, calls, files, script_text>>

\* The process i of thread t runs: while its parent waits within the time
\* limit, and on until the parent kills it.
ThreadChildRuns(t, i) ==
  /\ child[t][i].state = "running"
  /\ \/ pc[t] = "communicate" /\ clock[t] < limits.max_execution_time
     \/ pc[t] = "kill"

\* The interpreter opens the file it was started on and reads the script;
\* a file that is not there is exit status 2.
ThreadChildStart(t) ==
  /\ \E i \in DOMAIN child[t] :
       /\ ThreadChildRuns(t, i)
       /\ child[t][i].pc = "start"
       /\ LET c == child[t][i] IN
            child' = [child EXCEPT ![t][i] =
              IF c.path \in files
              THEN Stepped([c EXCEPT !.script = script_text[c.path]])
              ELSE Exited([c EXCEPT !.pc = "crashed",
                                    !.err = @ \o <<"can't open file">>], 2)]
  /\ UNCHANGED <<limits, calls, pc, req, wrapped_code, script_path, files,
                 script_text, clock, captured, pending, outcome, stages>>

\* The interpreter runs the next line of the script.
ThreadChildStep(t) ==
  /\ \E i \in DOMAIN child[t] :
       /\ ThreadChildRuns(t, i)
       /\ child[t][i].pc # "start"
       /\ Stepped(child[t][i]) # child[t][i]
       /\ child' = [child EXCEPT ![t][i] = Stepped(@)]
  /\ UNCHANGED <<limits, calls, pc, req, wrapped_code, script_path, files,
                 script_text, clock, captured, pending, outcome, stages>>

NextConcurrent ==
  \E t \in Threads :
    \/ ThreadExecuteCode(t)
    \/ ThreadValidate(t)
    \/ ThreadWrap(t)
    \/ ThreadCreateTemporaryScript(t)
    \/ ThreadPopen(t)
    \/ ThreadTick(t)
    \/ ThreadCommunicateReturns(t)
    \/ ThreadCommunicateTimesOut(t)
    \/ ThreadKill(t)
    \/ ThreadCheckReturncode(t)
    \/ ThreadExtract(t)
    \/ ThreadFinally(t)
    \/ ThreadReturnToCaller(t)
    \/ ThreadChildStart(t)
    \/ ThreadChildStep(t)

SpecConcurrent == InitConcurrent /\ [][NextConcurrent]_vars

(***************************************************************************)
(* Vocabulary of the properties.                                           *)
(***************************************************************************)
\* part occurs in text.
Contains(text, part) ==
  \E i \in 0..(Len(text) - Len(part)) : SubSeq(text, i + 1, i + Len(part)) = part

\* The call in progress has been through communicate() and the time was up.
TimeWasUp == child.state # "none" /\ clock = limits.max_execution_time

\* The call in progress has ended, by return or by an exception.
CallOver == pc = "done"

ValidationFails ==
  validate_imports(req.code, limits.allowed_modules).kind = "raise"

\* The part of a dotted name before its first dot, found by position.
FirstComponent(name) ==
  LET dots == {i \in 1..Len(name) : name[i] = "."} IN
  IF dots = {} THEN name
  ELSE SubSeq(name, 1, (CHOOSE i \in dots : \A j \in dots : i <= j) - 1)

\* Some import statement of the tree, at any depth, names a module whose
\* first component is outside allowed.
RECURSIVE ImportsOutside(_, _)
ImportsOutside(node, allowed) ==
  \/ /\ node.type = "Import"
     /\ \E i \in 1..Len(node.names) : FirstComponent(node.names[i]) \notin allowed
  \/ /\ node.type = "ImportFrom"
     /\ node.module # <<>>
     /\ FirstComponent(node.module) \notin allowed
  \/ \E i \in 1..Len(node.body) : ImportsOutside(node.body[i], allowed)

StageOrder == <<"Validator", "Materializer", "Launcher", "Extractor">>

Entered(stage) == \E i \in 1..Len(stages) : stages[i] = stage

(***************************************************************************)
(* C1.  Validation completes successfully before the temporary file is     *)
(* created and before the child is spawned: whenever the call in progress  *)
(* has a temporary file, a bound script_path or a child, the validator ran *)
(* first and accepted the code; a call whose code fails validation has no  *)
(* temporary file and no child.                                            *)
(***************************************************************************)
C1_ValidationPrecedesCreation ==
  pc # "idle" =>
    /\ (TempName(calls) \in files \/ script_path # <<>> \/ child.state # "none")
         => /\ stages # <<>>
            /\ stages[1] = "Validator"
            /\ ~ValidationFails
    /\ ValidationFails
         => /\ TempName(calls) \notin files
            /\ child.state = "none"

\* A call has ended in a validation error, with no file and no child.
C1_Witness ==
  /\ CallOver
  /\ ValidationFails
  /\ outcome.kind = "raise"
  /\ TempName(calls) \notin files
  /\ child.state = "none"

(***************************************************************************)
(* C2.  When execute_code has returned or raised, the temporary file of    *)
(* the call no longer exists.                                              *)
(***************************************************************************)
C2_FileRemovedOnEveryExit ==
  CallOver => TempName(calls) \notin files

(***************************************************************************)
(* C3.  When the child has not exited within max_execution_time, the call  *)
(* ends with the timeout error, and once the call has ended its child is   *)
(* not running.                                                            *)
(***************************************************************************)
C3_TimeoutKillsChild ==
  (CallOver /\ child.state # "none") =>
    /\ child.state # "running"
    /\ TimeWasUp => outcome = TimeoutError(limits)

\* A call has ended with the timeout error and its child killed.
C3_Witness ==
  /\ CallOver
  /\ TimeWasUp
  /\ child.state = "killed"
  /\ outcome = TimeoutError(limits)

(***************************************************************************)
(* C4.  A killed execution yields the timeout error and never a triple:    *)
(* the extractor does not run and nothing the child wrote is captured or   *)
(* decoded, also when its output holds a complete result region.           *)
(***************************************************************************)
C4_NoPartialResult ==
  (child.state = "killed" /\ pc \in {"finally", "done"}) =>
    /\ (IF pc = "done" THEN outcome ELSE pending).kind = "raise"
    /\ (IF pc = "done" THEN outcome ELSE pending).msg = TimeoutError(limits).msg
    /\ (IF pc = "done" THEN outcome ELSE pending).result = JNull
    /\ captured = NoCapture
    /\ ~Entered("Extractor")

\* A child was killed after it had written a complete, decodable region.
C4_Witness ==
  /\ CallOver
  /\ child.state = "killed"
  /\ Extracted(child.out, child.err).kind = "return"
  /\ Extracted(child.out, child.err).result # JNull
  /\ Contains(child.out, <<"RESULT_END", "\n">>)

(***************************************************************************)
(* C5.  Every spawned child has the address-space limit of max_memory_mb   *)
(* applied to it.                                                          *)
(***************************************************************************)
C5_MemoryCapApplied ==
  child.state # "none" => child.memCap = limit_resources(limits, TRUE)

(***************************************************************************)
(* C6.  For code that parses, the validator rejects it with an import      *)
(* error exactly when some import statement, at the top level or nested,   *)
(* names a module whose part before the first dot is outside               *)
(* allowed_modules.                                                        *)
(***************************************************************************)
C6_RejectsExactlyDisallowedImports ==
  (pc # "idle" /\ req.code.parses /\ stages # <<>>) =>
    ( ( /\ CallOver
        /\ stages = <<"Validator">>
        /\ outcome.kind = "raise"
        /\ outcome.type = "CodeExecutionError"
        /\ outcome.msg[1] \in {"Import of '", "Import from '"} )
      <=> ImportsOutside(req.code.tree, limits.allowed_modules) )

\* A `from os.math import ...` nested in a function has been rejected by an
\* executor whose allowlist holds math.
C6_Witness ==
  /\ CallOver
  /\ outcome.kind = "raise"
  /\ req.code.parses
  /\ req.code.tree.body # <<>>
  /\ req.code.tree.body[1] = FunctionDef(<<ImportFrom(<<"os", ".", "math">>)>>)
  /\ <<"math">> \in limits.allowed_modules

(***************************************************************************)
(* C7.  A non-zero exit that is not a timeout ends the call with the       *)
(* execution-failed error carrying the stderr of the child; when main()    *)
(* raised, that text holds `ERROR: <message>` and the stack trace.         *)
(***************************************************************************)
C7_NonZeroExitSurfacesStderr ==
  (CallOver /\ child.state = "exited" /\ child.returncode # 0 /\ ~TimeWasUp) =>
    /\ outcome = ExecutionFailed(child.err)
    /\ child.script.code.run.end.k = "raise" =>
         /\ Contains(outcome.msg, <<"ERROR:", " ">> \o ExceptionMessage \o <<"\n">>)
         /\ Contains(outcome.msg, <<"Traceback (most recent call last):", "\n">>)

\* main() raised and the call has ended with the execution-failed error.
C7_Witness ==
  /\ CallOver
  /\ child.state = "exited"
  /\ child.pc = "failed"
  /\ child.script.code.run.end.k = "raise"
  /\ ~TimeWasUp
  /\ outcome.kind = "raise"

(***************************************************************************)
(* C8.  When main() returns a JSON-serializable value v and the child      *)
(* exits with status 0 within the time limit, the call returns a result    *)
(* equal to v and a stdout that holds RESULT_START, one line with the      *)
(* JSON encoding of v, and RESULT_END.                                     *)
(***************************************************************************)
C8_ReturnsValueOfMain ==
  ( /\ CallOver
    /\ child.state = "exited"
    /\ child.returncode = 0
    /\ ~TimeWasUp
    /\ child.script.code.run.end.k = "return" ) =>
    /\ outcome.kind = "return"
    /\ outcome.result = child.script.code.run.end.v
    /\ Contains(outcome.stdout,
                <<"RESULT_START", "\n">>
                \o Render(child.script.code.run.end.v, JsonLang)
                \o <<"\n", "RESULT_END", "\n">>)

(***************************************************************************)
(* C9.  Code whose main() returns input_data unchanged yields a result     *)
(* equal to the input passed to execute_code, for every JSON value, the    *)
(* empty and falsy ones included.                                          *)
(***************************************************************************)
C9_InputRoundTrip ==
  ( /\ CallOver
    /\ child.state = "exited"
    /\ ~TimeWasUp
    /\ req.code.run = Run(<<>>, ReturnsInput) ) =>
    /\ outcome.kind = "return"
    /\ outcome.result = req.input

(***************************************************************************)
(* C10.  The stages are entered in the order Validator, Materializer,      *)
(* Launcher, Extractor, and a failing stage is the last one entered: after *)
(* a validation failure only the validator, after a failure to write or    *)
(* to spawn, a timeout or a non-zero exit never the extractor.             *)
(***************************************************************************)
C10_StagesInOrderAndShortCircuit ==
  /\ Len(stages) <= Len(StageOrder)
  /\ stages = SubSeq(StageOrder, 1, Len(stages))
  /\ (pc # "idle" /\ stages # <<>> /\ ValidationFails)
       => (stages = <<"Validator">> /\ CallOver)
  /\ ( \/ pc = "kill"
       \/ child.state = "killed"
       \/ child.state = "exited" /\ child.returncode # 0
       \/ pending.type = "OSError"
       \/ outcome.type = "OSError" )
       => ~Entered("Extractor")

\* A call whose child exited with a non-zero status has ended after the
\* first three stages, the extractor not entered.
C10_Witness ==
  /\ CallOver
  /\ child.state = "exited"
  /\ child.returncode # 0
  /\ ~TimeWasUp
  /\ stages = SubSeq(StageOrder, 1, 3)

(***************************************************************************)
(* Why a call that raised did so, read from the state of the call.         *)
(***************************************************************************)
FailureCauses == {"syntax", "import", "timeout", "exit", "parse"}

Cause ==
  IF ValidationFails THEN (IF req.code.parses THEN "import" ELSE "syntax")
  ELSE IF TimeWasUp THEN "timeout"
  ELSE IF child.state = "exited" /\ child.returncode # 0 THEN "exit"
  ELSE IF Entered("Extractor") THEN "parse"
  ELSE "environment"

\* The error the code raises for a cause, on an example of the cause.
RaisedFor(cause) ==
  CASE cause = "syntax" ->
         validate_imports(Code(FALSE, Module(<<>>), Run(<<>>, Hangs)),
                          limits.allowed_modules)
    [] cause = "import" ->
         validate_imports(Code(TRUE, Module(<<Import(<< <<"forbidden">> >>)>>),
                               Run(<<>>, Hangs)),
                          limits.allowed_modules)
    [] cause = "timeout" -> TimeoutError(limits)
    [] cause = "exit" -> ExecutionFailed(<<>>)
    [] cause = "parse" -> Extracted(<<"RESULT_START", "\n", "x", "\n">>, <<>>)

\* The cause a caller reads from the opening text of a message.
CauseOfMessage(msg) ==
  CASE msg = <<>> -> "none"
    [] msg # <<>> /\ msg[1] = "Syntax error in code: " -> "syntax"
    [] msg # <<>> /\ msg[1] \in {"Import of '", "Import from '"} -> "import"
    [] msg # <<>> /\ msg[1] = "Code execution exceeded time limit of " -> "timeout"
    [] msg # <<>> /\ msg[1] = "Code execution failed with error:" -> "exit"
    [] msg # <<>> /\ msg[1] = "Failed to parse execution result" -> "parse"
    [] OTHER -> "none"

(***************************************************************************)
(* C11 as stated.  The five failure causes are surfaced as distinct error  *)
(* kinds: the kind of the error raised for one cause is not the kind the   *)
(* code raises for any other cause.                                        *)
(***************************************************************************)
C11_DistinctErrorKinds ==
  (CallOver /\ outcome.kind = "raise" /\ Cause \in FailureCauses) =>
    \A other \in FailureCauses \ {Cause} : outcome.type # RaisedFor(other).type

(***************************************************************************)
(* C11 as amended.  All five causes are raised as the one kind             *)
(* CodeExecutionError; they differ in the message, whose opening text      *)
(* tells the cause.                                                        *)
(***************************************************************************)
C11_DistinctByMessageOnly ==
  (CallOver /\ outcome.kind = "raise" /\ Cause \in FailureCauses) =>
    /\ outcome.type = "CodeExecutionError"
    /\ CauseOfMessage(outcome.msg) = Cause

\* A call has ended in the parse error, and it is a CodeExecutionError.
C11_Witness ==
  /\ CallOver
  /\ outcome.kind = "raise"
  /\ Cause = "parse"
  /\ outcome.type = "CodeExecutionError"

(***************************************************************************)
(* The state of the execution state machine a call is in.  A call that     *)
(* raises out of validation, or out of writing the script or spawning,     *)
(* ends in the state it was in: these exits have no state of their own.    *)
(***************************************************************************)
PhaseOfOutcome(o) ==
  IF TimeWasUp THEN "TimedOut"
  ELSE IF child.state = "exited" /\ child.returncode # 0 THEN "Crashed"
  ELSE IF Entered("Extractor")
       THEN (IF o.kind = "return" THEN "Done" ELSE "ParseFailed")
  ELSE IF Entered("Materializer") THEN "Materializing"
  ELSE "Validating"

Phase ==
  CASE pc = "idle" -> "Idle"
    [] pc = "validate" -> "Validating"
    [] pc \in {"wrap", "create", "popen"} -> "Materializing"
    [] pc = "communicate" -> "Spawned"
    [] pc = "kill" -> "TimedOut"
    [] pc = "check" -> IF child.returncode = 0 THEN "Completed" ELSE "Crashed"
    [] pc = "extract" -> "Extracting"
    [] pc = "finally" -> PhaseOfOutcome(pending)
    [] pc = "done" -> PhaseOfOutcome(outcome)

Transitions ==
  { <<"Idle", "Validating">>, <<"Validating", "Materializing">>,
    <<"Materializing", "Spawned">>, <<"Spawned", "Completed">>,
    <<"Spawned", "TimedOut">>, <<"Spawned", "Crashed">>,
    <<"Completed", "Extracting">>, <<"Extracting", "Done">>,
    <<"Extracting", "ParseFailed">> }

TerminalPhases == {"Done", "TimedOut", "Crashed", "ParseFailed"}

\* This step starts a process.
Spawns == child'.state = "running" /\ child'.pc = "start" /\ child.pc # "start"

\* This step is the caller taking the outcome of a finished call.
CallLeaves == pc = "done" /\ pc' = "idle"

(***************************************************************************)
(* C12.  Within a call the state changes only along Idle -> Validating ->  *)
(* Materializing -> Spawned -> {Completed, TimedOut, Crashed}, Completed   *)
(* -> Extracting -> {Done, ParseFailed}; a terminal state is not left      *)
(* before the call is over, and a process is started only by a call that   *)
(* has none: nothing is retried.                                           *)
(***************************************************************************)
C12_StateMachine ==
  [][ ~CallLeaves =>
        /\ Phase' # Phase => <<Phase, Phase'>> \in Transitions
        /\ Phase \in TerminalPhases => Phase' = Phase
        /\ Spawns => child.state = "none" ]_vars

\* A call has gone all the way to ParseFailed, its child spawned and exited.
C12_Witness ==
  /\ CallOver
  /\ Phase = "ParseFailed"
  /\ child.state = "exited"

(***************************************************************************)
(* The first marker region of a text, read by position: the lines after    *)
(* the first RESULT_START line and before the first RESULT_END line that   *)
(* follows it.                                                             *)
(***************************************************************************)
Least(S) == CHOOSE i \in S : \A j \in S : i <= j

StartLines(lines) == {i \in 1..Len(lines) : lines[i] = <<"RESULT_START">>}
EndLinesAfter(lines, s) == {i \in (s + 1)..Len(lines) : lines[i] = <<"RESULT_END">>}

HasRegion(text) ==
  LET lines == Split(text, "\n") IN
  /\ StartLines(lines) # {}
  /\ EndLinesAfter(lines, Least(StartLines(lines))) # {}

Enclosed(text) ==
  LET lines == Split(text, "\n")
      s == Least(StartLines(lines))
      e == Least(EndLinesAfter(lines, s))
  IN SubSeq(lines, s + 1, e - 1)

\* The child of the call exited with status 0 within the time limit.
CleanExit == child.state = "exited" /\ child.returncode = 0 /\ ~TimeWasUp

(***************************************************************************)
(* C13.  When the captured stdout holds the markers and the content        *)
(* between them is not parsable as JSON, an empty or blank content         *)
(* included, the call fails with the parse error.                          *)
(***************************************************************************)
C13_UnparsableRegionFails ==
  ( /\ CallOver
    /\ CleanExit
    /\ HasRegion(child.out)
    /\ ~Loads(Join(Enclosed(child.out), <<"\n">>), JsonLang).ok ) =>
    /\ outcome.kind = "raise"
    /\ outcome.msg = <<"Failed to parse execution result">>

\* No line of the text is a marker.
NoMarkers(text) ==
  \A i \in 1..Len(Split(text, "\n")) :
    Split(text, "\n")[i] \notin {<<"RESULT_START">>, <<"RESULT_END">>}

(***************************************************************************)
(* C14.  When the child exits with status 0 and its stdout holds neither   *)
(* marker, the call does not fail: it returns None as the result, with     *)
(* the captured stdout and stderr.                                         *)
(***************************************************************************)
C14_NoMarkersNoResult ==
  (CallOver /\ CleanExit /\ NoMarkers(child.out)) =>
    /\ outcome.kind = "return"
    /\ outcome.result = JNull
    /\ outcome.stdout = child.out
    /\ outcome.stderr = child.err

\* Code that printed a line and left with status 0 without a result.
C14_Witness ==
  /\ CallOver
  /\ CleanExit
  /\ NoMarkers(child.out)
  /\ child.out = <<"x", "\n">>
  /\ outcome.kind = "return"

(***************************************************************************)
(* C15.  Whenever the call returns a triple, its stdout is everything the  *)
(* child wrote to stdout, unchanged: the lines outside the markers, the    *)
(* marker lines and the payload.                                           *)
(***************************************************************************)
C15_RawStdoutReturned ==
  (CallOver /\ outcome.kind = "return") =>
    /\ child.state = "exited"
    /\ outcome.stdout = child.out

\* A decoded result was returned with a stdout that also holds a line the
\* code printed before the markers.
C15_Witness ==
  /\ CallOver
  /\ outcome.kind = "return"
  /\ outcome.result # JNull
  /\ Contains(outcome.stdout, <<"x", "\n", "RESULT_START", "\n">>)
  /\ Contains(outcome.stdout, <<"RESULT_END", "\n">>)

(***************************************************************************)
(* Vocabulary of the properties on concurrent calls.                       *)
(***************************************************************************)
\* The process an interpreter ends as when nothing stops it; a script that
\* never finishes stays running.
RECURSIVE FinalChild(_)
FinalChild(c) ==
  IF c.state = "running" /\ Stepped(c) # c THEN FinalChild(Stepped(c)) ELSE c

\* What a call of execute_code(request) on the executor self can end in
\* when it is the only call there is, after whatever calls came before.
AloneOutcomes(request, self) ==
  LET e == validate_imports(request.code, self.allowed_modules)
      c == FinalChild([NoChild EXCEPT !.state = "running", !.pc = "start",
                                      !.script = Wrapped(request)])
  IN IF e.kind = "raise" THEN {e}
     ELSE {Raise("OSError", <<"write">>), Raise("OSError", <<"spawn">>),
           TimeoutError(self)}
          \cup (IF c.state # "exited" THEN {}
                ELSE IF c.returncode # 0 THEN {ExecutionFailed(c.err)}
                ELSE {Extracted(c.out, c.err)})

\* The call of thread t has its temporary file.
InFlight(t) ==
  pc[t] \in {"popen", "communicate", "kill", "check", "extract", "finally"}

\* Every call in flight has a file of its own, holding its own script; its
\* processes run that script; and it ends as it would end alone.
Isolated ==
  \A t \in Threads :
    /\ \A u \in Threads \ {t} :
         InFlight(t) /\ InFlight(u) => script_path[t] # script_path[u]
    /\ InFlight(t) =>
         /\ script_path[t][1] \in files
         /\ script_text[script_path[t][1]] = wrapped_code[t]
    /\ \A i \in DOMAIN child[t] :
         child[t][i].pc # "start" => child[t][i].script = Wrapped(req[t])
    /\ pc[t] = "done" => outcome[t] \in AloneOutcomes(req[t], limits)

(***************************************************************************)
(* C16.  Concurrent calls each own a temporary file under a name of its    *)
(* own and a child of its own: a file is removed only by the call it       *)
(* belongs to, a child is killed only by the call that started it, a       *)
(* child runs the script of its own call, and every call ends in an        *)
(* outcome that its own code and input give when run alone.                *)
(***************************************************************************)
C16_ConcurrentCallsIsolated ==
  /\ []Isolated
  /\ [][
      /\ \A n \in files \ files' :
           \E t \in Threads :
             /\ pc[t] = "finally"
             /\ script_path[t] = <<n>>
             /\ pc'[t] = "done"
      /\ \A t \in Threads :
           \A i \in DOMAIN child[t] \cap DOMAIN child'[t] :
             (child[t][i].state = "running" /\ child'[t][i].state = "killed") =>
               (pc[t] = "kill" /\ pc'[t] = "finally") ]_vars

\* Two calls with distinct inputs are both about to leave, each with the
\* result of its own input, their two files and two children side by side.
C16_Witness ==
  /\ pc["t1"] = "finally"
  /\ pc["t2"] = "finally"
  /\ req["t1"].input = JNum(1)
  /\ req["t2"].input = JList(<<JNum(1)>>)
  /\ pending["t1"].kind = "return"
  /\ pending["t2"].kind = "return"
  /\ pending["t1"].result = JNum(1)
  /\ pending["t2"].result = JList(<<JNum(1)>>)
  /\ script_path["t1"] # script_path["t2"]
  /\ {script_path["t1"][1], script_path["t2"][1]} \subseteq files

(***************************************************************************)
(* C17.  When the second of two calls in a row on one executor is over,    *)
(* each call has had a temporary file of its own, both files are gone,     *)
(* and the second call ended as its code and input end on a fresh          *)
(* executor, whatever the first call ended in.                             *)
(***************************************************************************)
C17_SequentialCallsIndependent ==
  (CallOver /\ calls = 2) =>
    /\ TempName(1) # TempName(2)
    /\ script_path # <<>> => script_path = <<TempName(2)>>
    /\ files \cap {TempName(1), TempName(2)} = {}
    /\ outcome \in AloneOutcomes(req, limits)

\* The processes started by the call of thread t that are alive.
LiveChildren(t) == {i \in DOMAIN child[t] : child[t][i].state = "running"}

(***************************************************************************)
(* C18.  At every moment of a call, at most one of the processes the call  *)
(* has started is alive.                                                   *)
(***************************************************************************)
C18_AtMostOneChildPerCall ==
  \A t \in Threads : Cardinality(LiveChildren(t)) <= 1

\* Two calls wait in communicate(), each on its one running child.
C18_Witness ==
  \A t \in Threads :
    /\ pc[t] = "communicate"
    /\ Cardinality(LiveChildren(t)) = 1
    /\ Process(t).pc = "print_end"

(***************************************************************************)
(* C19.  A child runs under the memory cap, or, when the cap could not be  *)
(* set, without it and with the warning of _limit_resources on its         *)
(* stderr: the failure is reported and the execution goes on.              *)
(***************************************************************************)
C19_CapFailureWarnsAndProceeds ==
  child.state # "none" =>
    \/ child.memCap = limit_resources(limits, TRUE)
    \/ /\ child.memCap = limit_resources(limits, FALSE)
       /\ Contains(child.err, LimitWarning)

\* The call went through its finally block and the file is still there:
\* os.unlink failed.
UnlinkFailed == CallOver /\ script_path # <<>> /\ script_path[1] \in files

(***************************************************************************)
(* C20.  What a call that reached its finally block hands to the caller    *)
(* is the value or the exception that entered the block, whether the       *)
(* unlink removed the file or failed: a failed removal raises nothing.     *)
(***************************************************************************)
C20_UnlinkFailureSwallowed ==
  (CallOver /\ script_path # <<>>) =>
    /\ outcome = pending
    /\ outcome # NoOutcome

\* A call returned its decoded result although its file could not be removed.
C20_Witness ==
  /\ UnlinkFailed
  /\ outcome.kind = "return"
  /\ outcome.result # JNull

(***************************************************************************)
(* C21.  No step of any call changes max_execution_time, max_memory_mb or  *)
(* allowed_modules of the executor.                                        *)
(***************************************************************************)
C21_LimitsNeverChange ==
  [][ /\ limits'.max_execution_time = limits.max_execution_time
      /\ limits'.max_memory_mb = limits.max_memory_mb
      /\ limits'.allowed_modules = limits.allowed_modules ]_vars

\* The second call on an executor built with the allowlist {os} has timed
\* out, and the executor still has the limits it was built with.
C21_Witness ==
  /\ CallOver
  /\ calls = 2
  /\ outcome = TimeoutError(limits)
  /\ limits = init(MaxTime, 512, Given({<<"os">>}))

(***************************************************************************)
(* C22.  Every call of execute_code that has started comes to its end,     *)
(* with a triple or an exception for the caller, whatever the child does.  *)
(***************************************************************************)
C22_EveryCallTerminates ==
  (pc # "idle") ~> (CallOver /\ outcome.kind \in {"return", "raise"})

\* A call is over whose child never finished: it was killed at the limit.
C22_Witness ==
  /\ CallOver
  /\ child.state = "killed"
  /\ child.script.code.run.end = Hangs
  /\ outcome.kind = "raise"

(***************************************************************************)
(* C23.  After a clean exit the decoded result is the JSON parse of the    *)
(* lines strictly between the first RESULT_START line and the RESULT_END   *)
(* line that closes it; a stdout with no such pair of markers gives no     *)
(* result, whatever follows an unclosed RESULT_START.                      *)
(***************************************************************************)
C23_ResultFromEnclosedLinesOnly ==
  (CallOver /\ CleanExit) =>
    IF HasRegion(child.out)
    THEN LET r == Loads(Join(Enclosed(child.out), <<"\n">>), JsonLang) IN
         r.ok => (outcome.kind = "return" /\ outcome.result = r.v)
    ELSE outcome.kind = "return" => outcome.result = JNull

\* The nodes of a tree in the order of the source text: a statement, then
\* the statements nested in it, then the statement that follows it.
RECURSIVE SourceOrder(_)
SourceOrder(nodes) ==
  IF nodes = <<>> THEN <<>>
  ELSE <<Head(nodes)>> \o SourceOrder(Head(nodes).body) \o SourceOrder(Tail(nodes))

\* The statements nested directly in the given nodes, in order.
RECURSIVE Children(_)
Children(nodes) ==
  IF nodes = <<>> THEN <<>> ELSE Head(nodes).body \o Children(Tail(nodes))

\* The nodes level by level: all of one nesting depth, in the order of the
\* source, before any of the next depth.
RECURSIVE LevelOrder(_)
LevelOrder(nodes) ==
  IF nodes = <<>> THEN <<>> ELSE nodes \o LevelOrder(Children(nodes))

\* The error of the first node of the sequence that has a disallowed import.
FirstViolation(nodes, allowed) ==
  LET bad == {i \in 1..Len(nodes) : CheckNode(nodes[i], allowed).kind = "raise"} IN
  IF bad = {} THEN NoOutcome ELSE CheckNode(nodes[Least(bad)], allowed)

\* The call ended in the validator, on an import.
RejectedImport ==
  /\ CallOver
  /\ req.code.parses
  /\ stages = <<"Validator">>
  /\ outcome.kind = "raise"

(***************************************************************************)
(* C24, as claimed.  A rejected import is the first disallowed one in the  *)
(* order of the source, also when it is nested in a function and a later   *)
(* disallowed import stands at the top level.                              *)
(***************************************************************************)
C24_FirstInSourceOrder ==
  RejectedImport =>
    outcome = FirstViolation(SourceOrder(<<req.code.tree>>), limits.allowed_modules)

(***************************************************************************)
(* C24, amended.  A rejected import is the first disallowed one level by   *)
(* level: the least deeply nested, and among those of one depth the first  *)
(* in the source; it alone is reported.                                    *)
(***************************************************************************)
C24_FirstInWalkOrder ==
  RejectedImport =>
    outcome = FirstViolation(LevelOrder(<<req.code.tree>>), limits.allowed_modules)

\* `import os` nested in a function comes before `import os.math` at the top
\* level, and the error names os.math.
C24_Witness ==
  /\ RejectedImport
  /\ req.code.tree = Module(<<FunctionDef(<<Import(<< <<"os">> >>)>>),
                              Import(<< <<"os", ".", "math">> >>)>>)
  /\ outcome.msg = <<"Import of '", "os", ".", "math", "' is not allowed">>

\* The allowed_modules arguments an executor is constructed with.
ConstructorArguments == {NotGiven, Given({}), Given({<<"os">>})}

\* The executor the defaults and a given allowlist describe.
Configured(allowed_modules) ==
  [max_execution_time |-> DefaultMaxExecutionTime,
   max_memory_mb |-> DefaultMaxMemoryMb,
   allowed_modules |->
     IF allowed_modules.given THEN allowed_modules.set ELSE DefaultAllowedModules]

(***************************************************************************)
(* C25.  An executor constructed with the default limits has 30, 512 and   *)
(* the eight default modules, or the allowlist it was given in their       *)
(* place; with a given allowlist, the empty one included, code that parses *)
(* is rejected exactly when it imports outside that allowlist.             *)
(***************************************************************************)
C25_AllowlistAsGiven ==
  \A a \in ConstructorArguments :
    /\ init(DefaultMaxExecutionTime, DefaultMaxMemoryMb, a) = Configured(a)
    /\ limits = init(limits.max_execution_time, limits.max_memory_mb, a) =>
         /\ limits.allowed_modules = Configured(a).allowed_modules
         /\ (a.given /\ CallOver /\ req.code.parses) =>
              ( (stages = <<"Validator">> /\ outcome.kind = "raise")
                <=> ImportsOutside(req.code.tree, a.set) )

(***************************************************************************)
(* C26.  A call returns a triple only after its child exited with status   *)
(* 0 within the time limit; a child that exits with another status within *)
(* the limit gives the execution-failed error, whatever its stdout holds.  *)
(***************************************************************************)
C26_TripleOnlyAfterCleanExit ==
  /\ (CallOver /\ outcome.kind = "return") => CleanExit
  /\ (CallOver /\ child.state = "exited" /\ child.returncode # 0 /\ ~TimeWasUp) =>
       /\ outcome.kind = "raise"
       /\ outcome.msg = <<"Code execution failed with error:", "\n">> \o child.err

\* The code printed a whole result region holding 5 and then left with a
\* non-zero status: the call failed although its stdout decodes to 5.
C26_Witness ==
  /\ CallOver
  /\ child.state = "exited"
  /\ child.returncode # 0
  /\ Extracted(child.out, child.err).kind = "return"
  /\ Extracted(child.out, child.err).result = JNum(5)
  /\ outcome.kind = "raise"

(***************************************************************************)
(* C27.  After a clean exit of code whose main() returned, the decoded     *)
(* result is the value main() returned and the call does not fail,         *)
(* whatever lines the code printed, marker texts included.                 *)
(***************************************************************************)
C27_UserOutputNeverChangesResult ==
  ( /\ CallOver
    /\ CleanExit
    /\ child.script.code.run.end.k \in {"return", "return_input"} ) =>
    /\ outcome.kind = "return"
    /\ outcome.result = child.result

(***************************************************************************)
(* C28.  A child that has run to its exit, and whose code printed nothing  *)
(* itself, has written to stdout either nothing or the whole triple        *)
(* RESULT_START, one line with the encoded result, RESULT_END; it has      *)
(* written nothing when main() raised or its result could not be encoded.  *)
(***************************************************************************)
C28_MarkersBalancedAndOnSuccessOnly ==
  (child.state = "exited" /\ child.script.code.run.prints = <<>>) =>
    /\ child.out # <<>> =>
         /\ child.result.t # "object"
         /\ child.out = <<"RESULT_START", "\n">>
                        \o Render(child.result, JsonLang)
                        \o <<"\n", "RESULT_END", "\n">>
    /\ child.pc = "failed" => child.out = <<>>

\* Some import statement of the tree, at any depth, reaches a module whose
\* first component is outside allowed: by its dotted name, by the module it
\* imports from or, when it names no module, by the names it imports.
RECURSIVE ReachesOutside(_, _)
ReachesOutside(node, allowed) ==
  \/ /\ node.type \in {"Import", "ImportFrom"}
     /\ node.module = <<>>
     /\ \E i \in 1..Len(node.names) : FirstComponent(node.names[i]) \notin allowed
  \/ /\ node.type = "ImportFrom"
     /\ node.module # <<>>
     /\ FirstComponent(node.module) \notin allowed
  \/ \E i \in 1..Len(node.body) : ReachesOutside(node.body[i], allowed)

(***************************************************************************)
(* C29.  Code that has passed validation has no import statement, of any   *)
(* form, that reaches a module outside the allowlist: `from . import os`   *)
(* is held to the allowlist like `import os`.                              *)
(***************************************************************************)
C29_NoImportFormEscapes ==
  (pc # "idle" /\ Entered("Materializer")) =>
    ~ReachesOutside(req.code.tree, limits.allowed_modules)

====
